---- MODULE Spec2Model ----
(***************************************************************************)
(* NF-e expert system: the terminal program (agente_csv_novo.py, class     *)
(* NFExpertSystem) and the Tk program (agente_chat_interface_pro.py, class *)
(* NFExpertGUI).  Both keep a dict of loaded DataFrames and an active file *)
(* name, answer five predefined questions with pandas aggregations and     *)
(* send every other question to a remote chat endpoint.                    *)
(*                                                                         *)
(* One run of the model is one run of one of the two programs: app is      *)
(* chosen in Init and never changes.                                       *)
(***************************************************************************)
EXTENDS Integers, Sequences, FiniteSets, TLC

VARIABLES
    app,            \* "cli" (NFExpertSystem) or "gui" (NFExpertGUI)
    dataframes,     \* self.dataframes: a dict, kept as its items in insertion order
    current_file,   \* self.current_file
    selection,      \* gui: the row selected in self.file_tree (None: no selection)
    status_var,     \* gui: self.status_var, the text of the status bar (cli: None)
    threads,        \* gui: the threads running process_question_with_api
    ret             \* the last call made on the object and what it returned

vars == <<app, dataframes, current_file, selection, status_var, threads, ret>>

(***************************************************************************)
(* Bounds of the model.                                                    *)
(***************************************************************************)
MaxFiles == 2       \* distinct file names the user can load
MaxRows == 2        \* rows of one loaded CSV
MaxTopN == 3        \* top_n ranges over 1..MaxTopN
MaxSuppliers == 2   \* distinct supplier names in the data
MaxUnionRows == 2   \* rows of all files together, where the analyzers are exercised
MaxDatedRows == 3   \* rows of all files together, where the dates are exercised
MaxThreads == 1     \* threads of process_question_with_api alive at a time

None == "None"      \* Python's None

\* The cells of a DataFrame: a number, a string, or NaN (an empty CSV field, or a
\* column the file lacks).
Num(i) == [t |-> "num", v |-> i]
Str(s) == [t |-> "str", v |-> s]
NaN == [t |-> "nan"]
Text == Str("abc")  \* text that is no number, in a value column

AllFileNames == <<"a.csv", "b.csv", "c.csv", "d.csv">>
FileNames == {AllFileNames[i] : i \in 1..MaxFiles}

(***************************************************************************)
(* A Python dict as the sequence of its items [name, df] in insertion      *)
(* order.                                                                  *)
(***************************************************************************)
Keys(d) == [i \in 1..Len(d) |-> d[i].name]
KeySet(d) == {d[i].name : i \in 1..Len(d)}
Values(d) == [i \in 1..Len(d) |-> d[i].df]
GetItem(d, name) == (CHOOSE e \in {d[i] : i \in 1..Len(d)} : e.name = name).df

\* SetItem, were loading a name again to add the rows to those already stored
SetItemAccumulate(d, name, df) ==
    IF name \in KeySet(d)
    THEN [i \in 1..Len(d) |->
             IF d[i].name = name
             THEN [name |-> name, df |-> [columns |-> d[i].df.columns \cup df.columns,
                                          rows |-> d[i].df.rows \o df.rows]]
             ELSE d[i]]
    ELSE Append(d, [name |-> name, df |-> df])

\* d[name] = df: a new key goes last, an existing key keeps its place
SetItem(d, name, df) ==
    IF name \in KeySet(d)
    THEN [i \in 1..Len(d) |-> IF d[i].name = name THEN [name |-> name, df |-> df] ELSE d[i]]
    ELSE Append(d, [name |-> name, df |-> df])

\* del d[name]
DelItem(d, name) == SelectSeq(d, LAMBDA e : e.name # name)

\* next(iter(d.keys()), None)
FirstKey(d) == IF Len(d) = 0 THEN None ELSE d[1].name

(***************************************************************************)
(* DataFrames.  A frame is [columns, rows]; a row maps every column of its *)
(* frame to a cell.  A cell of a supplier column is a name or NaN; a cell  *)
(* of a value column is an integer amount, NaN, or text.  pandas gives a   *)
(* column the dtype object when it holds text (or, read from a CSV with a  *)
(* header and no rows, when it holds nothing) and a numeric dtype          *)
(* otherwise.                                                              *)
(***************************************************************************)
\* supplier names in ascending string order (the order groupby sorts by)
SupplierOrder == <<"ACME", "BETA", "CRUZ", "DELTA">>
Suppliers == {SupplierOrder[i] : i \in 1..MaxSuppliers}
Rank(s) == CHOOSE i \in 1..Len(SupplierOrder) : SupplierOrder[i] = s

Amounts == {-1, 1}

SupplierColumns == {"fornecedor", "RAZÃO SOCIAL EMITENTE"}
ValueColumns == {"valor", "VALOR NOTA FISCAL"}
DateColumns == {"data"}

CellsOf(c) ==
    IF c \in SupplierColumns THEN {Str(s) : s \in Suppliers} \cup {NaN}
    ELSE IF c \in ValueColumns THEN {Num(a) : a \in Amounts} \cup {NaN, Text}
    ELSE IF c \in DateColumns
    THEN {Str(x) : x \in {"2024-01-05", "2024-01-20", "2024-02-01", "2024-04-10"}} \cup {NaN, Text}
    ELSE {NaN}

SeqsUpTo(S, n) == UNION {[1..k -> S] : k \in 0..n}

RowsOf(cols) == {r \in [cols -> UNION {CellsOf(c) : c \in cols}] :
                    \A c \in cols : r[c] \in CellsOf(c)}

\* the frames read_csv can return for files with the given header and at most n rows
FramesOf(cols, n) == {[columns |-> cols, rows |-> rs] : rs \in SeqsUpTo(RowsOf(cols), n)}

IsNumber(cell) == cell.t = "num"

RECURSIVE SumSeq(_)
SumSeq(s) == IF Len(s) = 0 THEN 0 ELSE Head(s) + SumSeq(Tail(s))

\* pd.concat(frames, ignore_index=True) of a non-empty list: the rows of every
\* frame in list order, over the union of the columns, NaN where a frame lacks one
RECURSIVE ConcatRows(_, _)
ConcatRows(dfs, cols) ==
    IF Len(dfs) = 0 THEN <<>>
    ELSE [i \in 1..Len(Head(dfs).rows) |->
             [c \in cols |-> IF c \in Head(dfs).columns THEN Head(dfs).rows[i][c] ELSE NaN]]
         \o ConcatRows(Tail(dfs), cols)

Concat(dfs) ==
    LET cols == UNION {dfs[i].columns : i \in 1..Len(dfs)}
    IN  [columns |-> cols, rows |-> ConcatRows(dfs, cols)]

Column(df, c) == [i \in 1..Len(df.rows) |-> df.rows[i][c]]

\* dtype object: the column holds text, or the combined frame has no row at all
IsObjectDtype(df, c) ==
    \/ Len(df.rows) = 0
    \/ \E i \in 1..Len(df.rows) : df.rows[i][c].t = "str"

(***************************************************************************)
(* What the analyzers return.  The programs return formatted strings; a    *)
(* result here is the content of the string: which message it is and the   *)
(* figures printed in it.                                                  *)
(***************************************************************************)
DefaultTopN == 3

\* f"Top {top_n} fornecedores por valor total:\n{result.to_string()}"
TopResult(top_n, entries) == [kind |-> "Top", top_n |-> top_n, entries |-> entries]
\* f"Total de notas fiscais: {total:,}"
TotalResult(total) == [kind |-> "Total", total |-> total]
\* f"Valor médio das notas: R${mean_val:,.2f}", the mean being sum / count
MeanResult(sum, count) == [kind |-> "Mean", sum |-> sum, count |-> count]
\* "Colunas 'fornecedor' ou 'valor' não encontradas nos dados", "Coluna 'valor' não encontrada", ...
ColumnNotFound(what) == [kind |-> "ColumnNotFound", columns |-> what]
\* f"Erro na análise: {str(e)}" and its siblings: the text of a caught exception
Erro(msg) == [kind |-> "Erro", msg |-> msg]

\* an exception raised, or a value returned
Raise(msg) == [raised |-> TRUE, msg |-> msg]
Return(v) == [raised |-> FALSE, value |-> v]

\* AnalyzeAllFiles, were nothing raised on an empty registry
AnalyzeAllFilesUnchecked(a, d) == Return(Concat(Values(d)))

\* cli: _analyze_all_files raises when self.dataframes is empty;
\* gui: pd.concat(self.dataframes.values(), ignore_index=True) raises on an empty list
AnalyzeAllFiles(a, d) ==
    IF Len(d) = 0
    THEN Raise(IF a = "cli" THEN "Nenhum dado carregado" ELSE "No objects to concatenate")
    ELSE Return(Concat(Values(d)))

\* the numbers of a column, NaN skipped (pandas sums and means skip NaN)
Numbers(cells) == LET nums == SelectSeq(cells, IsNumber)
                  IN  [i \in 1..Len(nums) |-> nums[i].v]

\* df.groupby('fornecedor')['valor'].sum(): one entry per supplier name that occurs
\* (rows whose supplier is NaN belong to no group), sorted by supplier name
GroupKeys(df) == {df.rows[i]["fornecedor"].v :
                     i \in {j \in 1..Len(df.rows) : df.rows[j]["fornecedor"].t = "str"}}

SortedKeys(S) ==
    CHOOSE q \in [1..Cardinality(S) -> S] :
        \A i, j \in 1..Cardinality(S) : i < j => Rank(q[i]) < Rank(q[j])

\* GroupSum, were the rows of the other suppliers not left out
GroupSumOfAll(df, s) == SumSeq(Numbers(Column(df, "valor")))

GroupSum(df, s) ==
    LET mine == SelectSeq(df.rows, LAMBDA r : r["fornecedor"] = Str(s))
    IN  SumSeq(Numbers([i \in 1..Len(mine) |-> mine[i]["valor"]]))

\* GroupBySum, were the groups kept in the order their first rows come (sort=False)
GroupBySumUnsorted(df) ==
    LET S == GroupKeys(df)
        first(k) == CHOOSE i \in 1..Len(df.rows) :
                        /\ df.rows[i]["fornecedor"] = Str(k)
                        /\ \A j \in 1..(i - 1) : df.rows[j]["fornecedor"] # Str(k)
        ks == CHOOSE q \in [1..Cardinality(S) -> S] :
                  \A i, j \in 1..Cardinality(S) : i < j => first(q[i]) < first(q[j])
    IN  [i \in 1..Len(ks) |-> [fornecedor |-> ks[i], total |-> GroupSum(df, ks[i])]]

GroupBySum(df) ==
    LET ks == SortedKeys(GroupKeys(df))
    IN  [i \in 1..Len(ks) |-> [fornecedor |-> ks[i], total |-> GroupSum(df, ks[i])]]

RemoveAt(s, i) == SubSeq(s, 1, i - 1) \o SubSeq(s, i + 1, Len(s))

\* descending stable sort: equal totals keep the order they have in s
RECURSIVE StableDesc(_)
StableDesc(s) ==
    IF Len(s) = 0 THEN <<>>
    ELSE LET i == CHOOSE k \in 1..Len(s) :
                      /\ \A j \in 1..Len(s) : s[k].total >= s[j].total
                      /\ \A j \in 1..(k - 1) : s[j].total < s[k].total
         IN  <<s[i]>> \o StableDesc(RemoveAt(s, i))

\* every descending order of s: sort_values(ascending=False) sorts with numpy's
\* quicksort, which promises no order among equal totals
AnyDesc(s) ==
    LET n == Len(s)
        perms == {p \in [1..n -> 1..n] : \A i, j \in 1..n : i # j => p[i] # p[j]}
    IN  {[i \in 1..n |-> s[p[i]]] : p \in {q \in perms :
            \A i, j \in 1..n : i < j => s[q[i]].total >= s[q[j]].total}}

\* Series.nlargest(n), keep='first': with n >= len the whole series sorted
\* descending; otherwise a stable (mergesort) selection of the first n
NLargest(s, n) ==
    IF n <= 0 THEN {<<>>}
    ELSE IF n >= Len(s) THEN AnyDesc(s)
    ELSE {SubSeq(StableDesc(s), 1, n)}

\* the summed series is numeric for certain when the value column is; it is of dtype
\* object for certain when some group holds text or there is no row
SumIsObject(df) ==
    \/ Len(df.rows) = 0
    \/ \E i \in 1..Len(df.rows) :
          df.rows[i]["valor"].t = "str" /\ df.rows[i]["fornecedor"].t = "str"

\* _analyze_top_suppliers / analyze_top_suppliers: the results the call can return
AnalyzeTopSuppliers(a, d, top_n) ==
    LET all == AnalyzeAllFiles(a, d)
        df == all.value
    IN  IF all.raised THEN {Erro(all.msg)}
        ELSE IF "fornecedor" \notin df.columns \/ "valor" \notin df.columns
        THEN {ColumnNotFound("fornecedor ou valor")}
        ELSE (IF IsObjectDtype(df, "valor") THEN {Erro("TypeError")} ELSE {})
             \cup
             (IF SumIsObject(df) THEN {}
              ELSE {TopResult(top_n, e) : e \in NLargest(GroupBySum(df), top_n)})

\* CountInvoices, were a row that several files hold counted once
CountInvoicesDistinct(d) ==
    TotalResult(Cardinality(UNION {{d[i].df.rows[j] : j \in 1..Len(d[i].df.rows)} :
                                      i \in 1..Len(d)}))

\* _count_invoices / count_invoices
CountInvoices(d) ==
    LET lens == [i \in 1..Len(d) |-> Len(d[i].df.rows)]
    IN  TotalResult(SumSeq(lens))

\* _calculate_mean_value / calculate_mean_value: Series.mean() skips NaN, and fails
\* on a column that holds text
CalculateMeanValue(a, d) ==
    LET all == AnalyzeAllFiles(a, d)
        df == all.value
        nums == Numbers(Column(df, "valor"))
    IN  IF all.raised THEN Erro(all.msg)
        ELSE IF "valor" \notin df.columns THEN ColumnNotFound("valor")
        ELSE IF \E i \in 1..Len(df.rows) : df.rows[i]["valor"].t = "str"
        THEN Erro("TypeError")
        ELSE MeanResult(SumSeq(nums), Len(nums))

\* f"Distribuição temporal:\n{temporal.to_string()}": one line per month
TemporalResult(buckets) == [kind |-> "Temporal", buckets |-> buckets]

\* pd.to_datetime of one cell: a date for a date string, NaT for NaN, and an
\* exception (errors='raise' is the default) for any other text
DateStrings == {"2024-01-05", "2024-01-20", "2024-02-01", "2024-04-10"}
ParseDate(str) ==
    CASE str = "2024-01-05" -> [year |-> 2024, month |-> 1, day |-> 5]
      [] str = "2024-01-20" -> [year |-> 2024, month |-> 1, day |-> 20]
      [] str = "2024-02-01" -> [year |-> 2024, month |-> 2, day |-> 1]
      [] str = "2024-04-10" -> [year |-> 2024, month |-> 4, day |-> 10]
Parseable(cell) == cell.t = "str" /\ cell.v \in DateStrings
MonthIndex(date) == date.year * 12 + (date.month - 1)

\* resample('M', on='data').size(): one bucket for every month from the first to the
\* last date, months without rows included with a count of 0; NaT rows are in none
Resample(cells) ==
    LET dated == SelectSeq(cells, Parseable)
        idx == [i \in 1..Len(dated) |-> MonthIndex(ParseDate(dated[i].v))]
        all == {idx[i] : i \in 1..Len(idx)}
        lo == CHOOSE x \in all : \A y \in all : x <= y
        hi == CHOOSE x \in all : \A y \in all : x >= y
    IN  IF Len(dated) = 0 THEN <<>>
        ELSE [k \in 1..(hi - lo + 1) |->
                 [year |-> (lo + k - 1) \div 12,
                  month |-> ((lo + k - 1) % 12) + 1,
                  count |-> Cardinality({i \in 1..Len(idx) : idx[i] = lo + k - 1})]]

\* _analyze_temporal_distribution / analyze_temporal_dist: the results the call can
\* return.  With rows but no date among them the bin edges are computed from NaT,
\* which pandas rejects in some versions and answers with no bucket in others.
AnalyzeTemporalDistribution(a, d) ==
    LET all == AnalyzeAllFiles(a, d)
        df == all.value
        cells == Column(df, "data")
    IN  IF all.raised THEN {Erro(all.msg)}
        ELSE IF "data" \notin df.columns THEN {ColumnNotFound("data")}
        ELSE IF \E i \in 1..Len(cells) : cells[i].t = "str" /\ ~Parseable(cells[i])
        THEN {Erro("ParserError")}
        ELSE IF Len(cells) > 0 /\ \A i \in 1..Len(cells) : cells[i].t = "nan"
        THEN {Erro("NaT"), TemporalResult(<<>>)}
        ELSE {TemporalResult(Resample(cells))}

(***************************************************************************)
(* Strings.  A question is the sequence of its Unicode code points, so     *)
(* that str.lower() and str.strip() are computed, not assumed.             *)
(***************************************************************************)
\* str.lower() on Latin-1: A-Z and the accented capitals (all but the sign 215)
LowerChar(c) == IF c \in 65..90 \/ (c \in 192..222 /\ c # 215) THEN c + 32 ELSE c
Lower(str) == [i \in 1..Len(str) |-> LowerChar(str[i])]

\* the characters str.strip() removes
IsSpace(c) == c \in {9, 10, 11, 12, 13, 28, 29, 30, 31, 32, 133, 160}

RECURSIVE LStrip(_)
LStrip(str) == IF Len(str) > 0 /\ IsSpace(Head(str)) THEN LStrip(Tail(str)) ELSE str
RECURSIVE RStrip(_)
RStrip(str) == IF Len(str) > 0 /\ IsSpace(str[Len(str)])
               THEN RStrip(SubSeq(str, 1, Len(str) - 1)) ELSE str
Strip(str) == RStrip(LStrip(str))

\* "Qual é o fornecedor com maior valor total nas notas fiscais?"
Q_MaiorFornecedor ==
    <<81, 117, 97, 108, 32, 233, 32, 111, 32, 102, 111, 114, 110, 101, 99, 101, 100, 111,
      114, 32, 99, 111, 109, 32, 109, 97, 105, 111, 114, 32, 118, 97, 108, 111, 114, 32,
      116, 111, 116, 97, 108, 32, 110, 97, 115, 32, 110, 111, 116, 97, 115, 32, 102, 105,
      115, 99, 97, 105, 115, 63>>

\* "Quantas notas fiscais existem no total?"
Q_TotalNFs ==
    <<81, 117, 97, 110, 116, 97, 115, 32, 110, 111, 116, 97, 115, 32, 102, 105, 115, 99,
      97, 105, 115, 32, 101, 120, 105, 115, 116, 101, 109, 32, 110, 111, 32, 116, 111, 116,
      97, 108, 63>>

\* "Qual é o valor médio das notas fiscais?"
Q_ValorMedio ==
    <<81, 117, 97, 108, 32, 233, 32, 111, 32, 118, 97, 108, 111, 114, 32, 109, 233, 100,
      105, 111, 32, 100, 97, 115, 32, 110, 111, 116, 97, 115, 32, 102, 105, 115, 99, 97,
      105, 115, 63>>

\* "Quais são os 3 fornecedores com maior valor total?"
Q_Top3Fornecedores ==
    <<81, 117, 97, 105, 115, 32, 115, 227, 111, 32, 111, 115, 32, 51, 32, 102, 111, 114,
      110, 101, 99, 101, 100, 111, 114, 101, 115, 32, 99, 111, 109, 32, 109, 97, 105, 111,
      114, 32, 118, 97, 108, 111, 114, 32, 116, 111, 116, 97, 108, 63>>

\* "Qual é a distribuição temporal das notas fiscais?"
Q_DistribuicaoTemporal ==
    <<81, 117, 97, 108, 32, 233, 32, 97, 32, 100, 105, 115, 116, 114, 105, 98, 117, 105,
      231, 227, 111, 32, 116, 101, 109, 112, 111, 114, 97, 108, 32, 100, 97, 115, 32, 110,
      111, 116, 97, 115, 32, 102, 105, 115, 99, 97, 105, 115, 63>>

\* "Maior Fornecedor"
K_MaiorFornecedor ==
    <<77, 97, 105, 111, 114, 32, 70, 111, 114, 110, 101, 99, 101, 100, 111, 114>>

\* "Total NFs"
K_TotalNFs ==
    <<84, 111, 116, 97, 108, 32, 78, 70, 115>>

\* "Valor Médio"
K_ValorMedio ==
    <<86, 97, 108, 111, 114, 32, 77, 233, 100, 105, 111>>

\* "Top 3 Fornecedores"
K_Top3Fornecedores ==
    <<84, 111, 112, 32, 51, 32, 70, 111, 114, 110, 101, 99, 101, 100, 111, 114, 101, 115>>

\* "Distribuição Temporal"
K_DistribuicaoTemporal ==
    <<68, 105, 115, 116, 114, 105, 98, 117, 105, 231, 227, 111, 32, 84, 101, 109, 112, 111,
      114, 97, 108>>

\* cli: self.predefined_questions, a dict from the menu keys '1'..'5'
CliCatalog ==
    << [key |-> <<49>>, question |-> Q_MaiorFornecedor, analysis |-> "top_suppliers"],
       [key |-> <<50>>, question |-> Q_TotalNFs, analysis |-> "count_invoices"],
       [key |-> <<51>>, question |-> Q_ValorMedio, analysis |-> "mean_value"],
       [key |-> <<52>>, question |-> Q_Top3Fornecedores, analysis |-> "top_suppliers"],
       [key |-> <<53>>, question |-> Q_DistribuicaoTemporal, analysis |-> "temporal_distribution"] >>

\* gui: self.predefined_questions, a dict from short labels to the question texts
GuiCatalog ==
    << [key |-> K_MaiorFornecedor, question |-> Q_MaiorFornecedor],
       [key |-> K_TotalNFs, question |-> Q_TotalNFs],
       [key |-> K_ValorMedio, question |-> Q_ValorMedio],
       [key |-> K_Top3Fornecedores, question |-> Q_Top3Fornecedores],
       [key |-> K_DistribuicaoTemporal, question |-> Q_DistribuicaoTemporal] >>

\* one call of an analyzer: the analyzer and the top_n it runs with (0: takes none)
Call(analysis, top_n) == [analysis |-> analysis, top_n |-> top_n]
NoCall == Call(None, 0)

\* the results the call can return
RunCall(a, d, call) ==
    CASE call.analysis = "top_suppliers" -> AnalyzeTopSuppliers(a, d, call.top_n)
      [] call.analysis = "count_invoices" -> {CountInvoices(d)}
      [] call.analysis = "mean_value" -> {CalculateMeanValue(a, d)}
      [] call.analysis = "temporal_distribution" -> AnalyzeTemporalDistribution(a, d)

\* cli ask_question: q['analysis']() of the first entry whose question matches,
\* called without arguments, so _analyze_top_suppliers runs with its default top_n
\* CliLocalCall, were the texts compared as typed
CliLocalCallCaseSensitive(question) ==
    LET hits == {i \in 1..Len(CliCatalog) : CliCatalog[i].question = question}
        first == CHOOSE i \in hits : \A j \in hits : i <= j
    IN  IF hits = {} THEN NoCall
        ELSE Call(CliCatalog[first].analysis,
                  IF CliCatalog[first].analysis = "top_suppliers" THEN DefaultTopN ELSE 0)

CliQuestionsLower == [i \in 1..Len(CliCatalog) |-> Lower(CliCatalog[i].question)]
CliLocalCall(question) ==
    LET hits == {i \in 1..Len(CliCatalog) : CliQuestionsLower[i] = Lower(question)}
        first == CHOOSE i \in hits : \A j \in hits : i <= j
    IN  IF hits = {} THEN NoCall
        ELSE Call(CliCatalog[first].analysis,
                  IF CliCatalog[first].analysis = "top_suppliers" THEN DefaultTopN ELSE 0)

\* gui answer_predefined_question(question_key)
AnswerPredefinedQuestion(question_key) ==
    CASE question_key = K_MaiorFornecedor -> Call("top_suppliers", 1)
      [] question_key = K_TotalNFs -> Call("count_invoices", 0)
      [] question_key = K_ValorMedio -> Call("mean_value", 0)
      [] question_key = K_Top3Fornecedores -> Call("top_suppliers", 3)
      [] question_key = K_DistribuicaoTemporal -> Call("temporal_distribution", 0)

\* gui ask_question: the first entry whose label or question matches
GuiKeysLower == [i \in 1..Len(GuiCatalog) |-> Lower(GuiCatalog[i].key)]
GuiQuestionsLower == [i \in 1..Len(GuiCatalog) |-> Lower(GuiCatalog[i].question)]
GuiLocalCall(question) ==
    LET hits == {i \in 1..Len(GuiCatalog) :
                    \/ Lower(question) = GuiKeysLower[i]
                    \/ Lower(question) = GuiQuestionsLower[i]}
        first == CHOOSE i \in hits : \A j \in hits : i <= j
    IN  IF hits = {} THEN NoCall ELSE AnswerPredefinedQuestion(GuiCatalog[first].key)

LocalCall(a, question) == IF a = "cli" THEN CliLocalCall(question) ELSE GuiLocalCall(question)

\* what the remote branch hands back.  cli: the answer of the chat endpoint, or
\* "Erro na API" when sampling or the request raises.  gui: nothing yet, the request
\* runs in a thread started by ask_question.
RemoteReply == [kind |-> "Remote"]
ThreadStarted == [kind |-> "ThreadStarted"]

\* pd.concat([df.sample(min(1000, len(df))) for df in self.dataframes.values()]) over
\* the items the iteration met: the files sampled, or the exception of an empty list
SampleOutcome(items) ==
    IF Len(items) = 0 THEN Raise("No objects to concatenate") ELSE Return(items)

\* self.client.chat.completions.create(...): the answer, or whatever the client raises
RequestOutcomes == {Return(RemoteReply), Raise("API")}

\* CatchRemote, were the exception let through
CatchNothing(outcome) ==
    IF outcome.raised THEN [kind |-> "Uncaught", msg |-> outcome.msg] ELSE outcome.value

\* try: ... except Exception as e: "Erro na API: {e}" (cli), "Falha na consulta: {e}" (gui)
CatchRemote(outcome) == IF outcome.raised THEN Erro(outcome.msg) ELSE outcome.value

\* the remote branch, from the sample to the answer, inside its try
RemoteAnswers(items) ==
    IF SampleOutcome(items).raised THEN {CatchRemote(SampleOutcome(items))}
    ELSE {CatchRemote(o) : o \in RequestOutcomes}

RemoteOutcomes(a, d) == IF a = "cli" THEN RemoteAnswers(d) ELSE {ThreadStarted}

\* LetsThrough, were the analyzers to raise what they report as "Erro ..."
LetsThroughErrors(v) == v.kind = "Erro"

\* whether the analyzer raises the result to its caller instead of returning it:
\* never, the body of every analyzer is one try whose except Exception clause
\* returns the message
LetsThrough(v) == FALSE

\* the local branch, the analyzer having given v.  cli: an exception of the analyzer
\* is logged and the question goes on to the remote branch; gui:
\* answer_predefined_question shows it as "Falha na análise"
LocalAnswers(a, d, call, v) ==
    IF ~LetsThrough(v) THEN {[route |-> "local", call |-> call, value |-> v]}
    ELSE IF a = "cli"
    THEN {[route |-> "remote", call |-> call, value |-> w] : w \in RemoteOutcomes(a, d)}
    ELSE {[route |-> "local", call |-> call, value |-> Erro("Falha na análise")]}

\* ask_question(question): the route taken (none: no data loaded), the analyzer
\* called and the results it can give
AskQuestion(a, d, question) ==
    IF Len(d) = 0
    THEN {[route |-> "none", call |-> NoCall, value |-> Erro("Nenhum dado carregado")]}
    ELSE IF LocalCall(a, question) # NoCall
    THEN UNION {LocalAnswers(a, d, LocalCall(a, question), v) :
                   v \in RunCall(a, d, LocalCall(a, question))}
    ELSE {[route |-> "remote", call |-> NoCall, value |-> v] : v \in RemoteOutcomes(a, d)}

(***************************************************************************)
(* Inputs.                                                                 *)
(***************************************************************************)
UpperChar(c) == IF c \in 97..122 \/ (c \in 224..254 /\ c # 247) THEN c - 32 ELSE c
Upper(str) == [i \in 1..Len(str) |-> UpperChar(str[i])]

\* what the user may type for a catalog text: the text itself, in capitals, with
\* blanks around it, cut short by a character, and with a character added
Variants(str) ==
    {str, Upper(str), <<32>> \o str \o <<32, 10>>,
     SubSeq(str, 1, Len(str) - 1), str \o <<33>>}

CatalogTexts ==
    {CliCatalog[i].question : i \in 1..Len(CliCatalog)}
    \cup {CliCatalog[i].key : i \in 1..Len(CliCatalog)}
    \cup {GuiCatalog[i].key : i \in 1..Len(GuiCatalog)}

\* the typed questions: the variants of every catalog text, and "oi"
RawQuestions == UNION {Variants(t) : t \in CatalogTexts} \cup {<<111, 105>>}

\* the typed menu choices: '1'..'5', '6', and ' 1 '
MenuChoices == {<<c>> : c \in 49..54} \cup {<<32, 49, 32>>}

\* the files the user loads while the registry is exercised: the first k invoices
\* of a ledger that goes round the suppliers, one unit each, dated in two months by turns
InvoiceRow(i) ==
    [c \in {"fornecedor", "valor", "data"} |->
        IF c = "fornecedor" THEN Str(SupplierOrder[((i - 1) % MaxSuppliers) + 1])
        ELSE IF c = "valor" THEN Num(1)
        ELSE Str(IF i % 2 = 1 THEN "2024-01-05" ELSE "2024-02-01")]
Invoices(k) ==
    [columns |-> {"fornecedor", "valor", "data"}, rows |-> [i \in 1..k |-> InvoiceRow(i)]]
LoadableFrames == {Invoices(k) : k \in 0..MaxRows}

\* the direct calls of the analyzers
AnalyzerCalls ==
    {Call("top_suppliers", n) : n \in 1..MaxTopN}
    \cup {Call("count_invoices", 0), Call("mean_value", 0), Call("temporal_distribution", 0)}

(***************************************************************************)
(* The state machine.  ret records the last call: the operation, what the  *)
(* user gave it, the registry it found, the question handed to             *)
(* ask_question, the route and analyzer ask_question took, and the value   *)
(* returned or shown.                                                      *)
(***************************************************************************)
Ret(op, arg, before, question, route, call, value) ==
    [op |-> op, arg |-> arg, before |-> before, question |-> question,
     route |-> route, call |-> call, value |-> value]

NoFrame == [columns |-> {}, rows |-> <<>>]
Snapshot(d, cur) == [dataframes |-> d, current_file |-> cur]
NoSnapshot == Snapshot(<<>>, None)

\* a call that changes or may change the registry
Done(op, arg, before, outcome) == Ret(op, arg, before, <<>>, None, NoCall, [kind |-> outcome])

\* combined_df['data'] = pd.to_datetime(combined_df['data']) writes the parsed dates
\* into combined_df.  pd.concat copies the frames it is given (copy=True), so
\* combined_df shares its columns with no frame of the registry.
\* ConcatShared, were the one frame of a registry handed on without a copy
ConcatSharedSingle(d) == IF Len(d) = 1 THEN {1} ELSE {}

\* the places in the registry of the frames combined_df shares its columns with
ConcatShared(d) == {}

\* a parsed date is kept by its text, as a cell of its own kind
DateCell(cell) == IF Parseable(cell) THEN [t |-> "date", v |-> cell.v] ELSE cell
WithParsedDates(df) ==
    [columns |-> df.columns,
     rows |-> [i \in 1..Len(df.rows) |->
                  [c \in df.columns |-> IF c = "data" THEN DateCell(df.rows[i][c])
                                        ELSE df.rows[i][c]]]]

\* the registry an analyzer leaves behind: only the temporal analyzer assigns to a
\* frame, once to_datetime has parsed the column
RegistryAfter(d, call) ==
    IF /\ call.analysis = "temporal_distribution"
       /\ Len(d) > 0
       /\ "data" \in Concat(Values(d)).columns
       /\ \A cell \in {Column(Concat(Values(d)), "data")[i] :
                          i \in 1..Len(Concat(Values(d)).rows)} :
             cell.t = "str" => Parseable(cell)
    THEN [i \in 1..Len(d) |->
             IF i \in ConcatShared(d)
             THEN [name |-> d[i].name, df |-> WithParsedDates(d[i].df)]
             ELSE d[i]]
    ELSE d

\* gui: the status bar
Pronto == "Pronto"
Consultando == "Consultando especialista"
InitialStatus(a) == IF a = "gui" THEN Pronto ELSE None

\* gui: a thread of process_question_with_api: where it stands, the registry when
\* the question was asked, the items its iteration of self.dataframes.values()
\* started on, and what sampling gave
NewThread(d) == [pc |-> "start", submitted |-> d, seen |-> <<>>, sample |-> Return(<<>>)]

Init ==
    /\ app \in {"cli", "gui"}
    /\ dataframes = <<>>
    /\ current_file = None
    /\ selection = None
    /\ status_var = InitialStatus(app)
    /\ threads = <<>>
    /\ ret = Done("init", None, NoSnapshot, "Started")

\* load_file, the file read: self.dataframes[filename] = df, and the file becomes
\* the current one when there is none.  gui: update_file_list() rebuilds the tree,
\* which drops its selection, and the status bar ends on "Pronto".
LoadFileInto(name, df) ==
    /\ dataframes' = SetItem(dataframes, name, df)
    /\ current_file' = IF current_file = None THEN name ELSE current_file
    /\ selection' = None
    /\ status_var' = IF app = "gui" THEN Pronto ELSE status_var
    /\ ret' = Done("load_file", [name |-> name, df |-> df],
                   Snapshot(dataframes, current_file), "Loaded")
    /\ UNCHANGED <<app, threads>>

LoadFile == \E name \in FileNames, df \in LoadableFrames : LoadFileInto(name, df)

\* load_file, the file missing, unreadable, a ZIP without CSV (the finally clause
\* sets the status bar), or the dialog cancelled (it returns at once): nothing is
\* stored
LoadFileFails ==
    /\ \E name \in FileNames, cancelled \in BOOLEAN :
          /\ ret' = Done("load_file", [name |-> name, df |-> NoFrame],
                         Snapshot(dataframes, current_file), "LoadFailed")
          /\ status_var' = IF app = "gui" /\ ~cancelled THEN Pronto ELSE status_var
    /\ UNCHANGED <<app, dataframes, current_file, selection, threads>>

\* cli _delete_file_interactive
DeleteFileInteractive ==
    /\ app = "cli"
    /\ \E filename \in FileNames :
          IF filename \in KeySet(dataframes)
          THEN /\ dataframes' = DelItem(dataframes, filename)
               /\ current_file' = IF current_file = filename
                                  THEN FirstKey(DelItem(dataframes, filename))
                                  ELSE current_file
               /\ ret' = Done("delete_file", filename,
                              Snapshot(dataframes, current_file), "Removed")
          ELSE /\ ret' = Done("delete_file", filename,
                              Snapshot(dataframes, current_file), "NotFound")
               /\ UNCHANGED <<dataframes, current_file>>
    /\ UNCHANGED <<app, selection, status_var, threads>>

\* gui select_file: a click on a row of the tree
SelectFile ==
    /\ app = "gui"
    /\ \E filename \in KeySet(dataframes) :
          /\ selection' = filename
          /\ current_file' = filename
          /\ ret' = Done("select_file", filename, NoSnapshot, "Selected")
    /\ UNCHANGED <<app, dataframes, status_var, threads>>

\* gui delete_file, confirmed in the dialog
DeleteFile ==
    /\ app = "gui"
    /\ selection # None
    /\ selection \in KeySet(dataframes)
    /\ dataframes' = DelItem(dataframes, selection)
    /\ current_file' = IF current_file = selection THEN None ELSE current_file
    /\ selection' = None
    /\ ret' = Done("delete_file", selection, Snapshot(dataframes, current_file), "Removed")
    /\ UNCHANGED <<app, status_var, threads>>

\* gui delete_file, nothing selected or the dialog answered no
DeleteFileRefused ==
    /\ app = "gui"
    /\ ret' = Done("delete_file", selection, Snapshot(dataframes, current_file),
                   IF selection = None THEN "NoSelection" ELSE "Declined")
    /\ UNCHANGED <<app, dataframes, current_file, selection, status_var, threads>>

\* ask_question(question) called by a handler: the analyzer runs, or the remote
\* branch does; gui: the remote branch is a thread started here
Asked(op, raw, question) ==
    \E r \in AskQuestion(app, dataframes, question) :
        /\ (app = "gui" /\ r.route = "remote") => Len(threads) < MaxThreads
        /\ threads' = IF app = "gui" /\ r.route = "remote"
                      THEN Append(threads, NewThread(dataframes))
                      ELSE threads
        /\ dataframes' = RegistryAfter(dataframes, r.call)
        /\ ret' = Ret(op, raw, Snapshot(dataframes, current_file), question,
                      r.route, r.call, r.value)

\* cli _custom_question / gui send_question: the text is stripped, and
\* ask_question is called when something is left
CustomQuestionOf(raw) ==
    /\ Strip(raw) # <<>>
    /\ Asked("custom_question", raw, Strip(raw))
    /\ UNCHANGED <<app, current_file, selection, status_var>>

CustomQuestion == \E raw \in RawQuestions : CustomQuestionOf(raw)

\* cli _predefined_questions_menu: a key of the catalog asks its question
PredefinedQuestionsMenu ==
    /\ app = "cli"
    /\ \E raw \in MenuChoices :
          LET hits == {i \in 1..Len(CliCatalog) : CliCatalog[i].key = Strip(raw)}
          IN  IF hits = {}
              THEN /\ ret' = Done("predefined_menu", raw, Snapshot(dataframes, current_file),
                                  "InvalidOption")
                   /\ UNCHANGED <<dataframes, threads>>
              ELSE \E i \in hits : Asked("predefined_menu", raw, CliCatalog[i].question)
    /\ UNCHANGED <<app, current_file, selection, status_var>>

\* an analyzer called on the object (gui: the quick-analysis buttons call the
\* analyzers with their defaults)
CallAnalyzer ==
    /\ \E call \in AnalyzerCalls :
          \E v \in RunCall(app, dataframes, call) :
             /\ dataframes' = RegistryAfter(dataframes, call)
             /\ ret' = Ret("analyzer", None, Snapshot(dataframes, current_file),
                           <<>>, None, call, v)
    /\ UNCHANGED <<app, current_file, selection, status_var, threads>>

\* gui process_question_with_api, its first statements: the status bar is set, and
\* the list comprehension starts to iterate over self.dataframes.values()
WorkerBegin ==
    /\ \E i \in 1..Len(threads) :
          /\ threads[i].pc = "start"
          /\ threads' = [threads EXCEPT ![i].pc = "sample", ![i].seen = dataframes]
    /\ status_var' = Consultando
    /\ UNCHANGED <<app, dataframes, current_file, selection, ret>>

\* the items an iteration of the dict meets that started on seen and ends on now:
\* the dict is read while the main thread may write it
ItemsMet(seen, now) == {seen, now}

\* what sampling gives: the sample of the items met, or, the keys having changed
\* under the iteration, RuntimeError ("dictionary changed size during iteration")
SampleOutcomes(seen, now) ==
    {SampleOutcome(items) : items \in ItemsMet(seen, now)}
    \cup (IF Keys(seen) # Keys(now) THEN {Raise("RuntimeError")} ELSE {})

\* gui process_question_with_api: the iteration ends and pd.concat builds the sample
WorkerSample ==
    /\ \E i \in 1..Len(threads) :
          /\ threads[i].pc = "sample"
          /\ \E o \in SampleOutcomes(threads[i].seen, dataframes) :
                threads' = [threads EXCEPT ![i].pc = "request", ![i].sample = o]
    /\ UNCHANGED <<app, dataframes, current_file, selection, status_var, ret>>

\* gui process_question_with_api, the rest: the request, the answer or the error
\* shown in the chat, and the status bar set in the finally clause
WorkerFinish ==
    /\ \E i \in 1..Len(threads) :
          /\ threads[i].pc = "request"
          /\ \E v \in (IF threads[i].sample.raised THEN {CatchRemote(threads[i].sample)}
                       ELSE {CatchRemote(o) : o \in RequestOutcomes}) :
                ret' = Ret("worker", threads[i].sample, Snapshot(threads[i].submitted, None),
                           <<>>, "remote", NoCall, v)
          /\ threads' = RemoveAt(threads, i)
    /\ status_var' = Pronto
    /\ UNCHANGED <<app, dataframes, current_file, selection>>

\* The registry: files loaded, selected and removed, and the analyzers called on
\* what is loaded.
Next ==
    \/ LoadFile
    \/ LoadFileFails
    \/ DeleteFileInteractive
    \/ SelectFile
    \/ DeleteFile
    \/ DeleteFileRefused
    \/ CallAnalyzer

Spec == Init /\ [][Next]_vars

\* The questions: asked with nothing loaded, with one file, with two, and with a
\* file that has no date column and text for an amount.
QuestionRegistries ==
    { <<>>,
      <<[name |-> "a.csv", df |-> Invoices(2)]>>,
      <<[name |-> "a.csv", df |-> Invoices(2)], [name |-> "b.csv", df |-> Invoices(1)]>>,
      <<[name |-> "a.csv",
         df |-> [columns |-> {"fornecedor", "valor"},
                 rows |-> <<[c \in {"fornecedor", "valor"} |->
                               IF c = "fornecedor" THEN Str("ACME") ELSE Text]>>]]>> }

InitQuestions ==
    /\ app \in {"cli", "gui"}
    /\ dataframes \in QuestionRegistries
    /\ current_file = FirstKey(dataframes)
    /\ selection = None
    /\ status_var = InitialStatus(app)
    /\ threads = <<>>
    /\ ret = Done("init", None, NoSnapshot, "Started")

NextQuestions ==
    \/ CustomQuestion
    \/ PredefinedQuestionsMenu
    \/ CallAnalyzer
    \/ WorkerBegin
    \/ WorkerSample
    \/ WorkerFinish

SpecQuestions == InitQuestions /\ [][NextQuestions]_vars

\* The analyzers: called on the empty registry, on every file of at most
\* MaxUnionRows rows, and on every two files with rows in both and at most
\* MaxUnionRows rows together.  The files carry the columns the analyzers look
\* for; files with the alias names, or lacking a column, have one row at most.
AnalyticsHeaders ==
    { {"fornecedor", "valor"}, {"RAZÃO SOCIAL EMITENTE", "VALOR NOTA FISCAL"},
      {"fornecedor"}, {"valor"} }
AnalyticsFrames(n) ==
    FramesOf({"fornecedor", "valor"}, n)
    \cup UNION {FramesOf(h, IF n = 0 THEN 0 ELSE 1) :
                   h \in AnalyticsHeaders \ {{"fornecedor", "valor"}}}

Registry(dfs) == [i \in 1..Len(dfs) |-> [name |-> AllFileNames[i], df |-> dfs[i]]]

AnalyticsRegistries ==
    LET part == {f \in AnalyticsFrames(MaxUnionRows - 1) : Len(f.rows) >= 1}
    IN  {<<>>}
        \cup {Registry(<<f>>) : f \in AnalyticsFrames(MaxUnionRows)}
        \cup {Registry(<<fg[1], fg[2]>>) :
                 fg \in {x \in part \X part : Len(x[1].rows) + Len(x[2].rows) <= MaxUnionRows}}

InitAnalytics ==
    /\ app \in {"cli", "gui"}
    /\ dataframes \in AnalyticsRegistries
    /\ current_file = FirstKey(dataframes)
    /\ selection = None
    /\ status_var = InitialStatus(app)
    /\ threads = <<>>
    /\ ret = Done("init", None, NoSnapshot, "Started")

NextAnalytics == CallAnalyzer

SpecAnalytics == InitAnalytics /\ [][NextAnalytics]_vars

\* The dates: the analyzers called on files with a date column of at most
\* MaxDatedRows rows together, alone or beside another file, which may lack the
\* column.
DatedFrames(n) ==
    FramesOf({"data"}, n) \cup FramesOf({"valor"}, IF n = 0 THEN 0 ELSE 1)

DatedRegistries ==
    LET part == {f \in DatedFrames(MaxDatedRows - 1) : Len(f.rows) >= 1}
    IN  {<<>>}
        \cup {Registry(<<f>>) : f \in DatedFrames(MaxDatedRows)}
        \cup {Registry(<<fg[1], fg[2]>>) :
                 fg \in {x \in part \X part : Len(x[1].rows) + Len(x[2].rows) <= MaxDatedRows}}

InitTemporal ==
    /\ app \in {"cli", "gui"}
    /\ dataframes \in DatedRegistries
    /\ current_file = FirstKey(dataframes)
    /\ selection = None
    /\ status_var = InitialStatus(app)
    /\ threads = <<>>
    /\ ret = Done("init", None, NoSnapshot, "Started")

NextTemporal == CallAnalyzer

SpecTemporal == InitTemporal /\ [][NextTemporal]_vars

\* The remote questions: files loaded and removed while questions that match
\* nothing are asked and, in the gui, their threads run.
UnmatchedQuestion == CustomQuestionOf(<<111, 105>>)
\* two names are enough for a file to be added or removed under a running thread
WorkerFiles == {"a.csv", "b.csv"}
LoadInvoices == \E name \in WorkerFiles : LoadFileInto(name, Invoices(1))

NextWorkers ==
    \/ LoadInvoices
    \/ DeleteFileInteractive
    \/ SelectFile
    \/ DeleteFile
    \/ UnmatchedQuestion
    \/ WorkerBegin
    \/ WorkerSample
    \/ WorkerFinish

SpecWorkers == Init /\ [][NextWorkers]_vars

(***************************************************************************)
(* The questions.                                                          *)
(***************************************************************************)
IsQuestion == ret.op \in {"custom_question", "predefined_menu"}

\* C1: a predefined question runs its analyzer with the question's own parameters:
\* the question for the one largest supplier (or its label) runs top_suppliers with
\* top_n = 1 and answers with at most one supplier, the question for the three
\* largest runs it with top_n = 3.
C1_OwnDefaultParameters ==
    (IsQuestion /\ ret.route = "local") =>
        /\ Lower(ret.question) \in {Lower(Q_MaiorFornecedor), Lower(K_MaiorFornecedor)} =>
              /\ ret.call = Call("top_suppliers", 1)
              /\ ret.value.kind = "Top" => Len(ret.value.entries) <= 1
        /\ Lower(ret.question) \in {Lower(Q_Top3Fornecedores), Lower(K_Top3Fornecedores)} =>
              ret.call = Call("top_suppliers", 3)

\* the texts of the catalog of the running program, lower-cased
CanonicalTexts == {Lower(GuiCatalog[i].question) : i \in 1..Len(GuiCatalog)}
ShortKeys(a) == IF a = "cli" THEN {Lower(CliCatalog[i].key) : i \in 1..Len(CliCatalog)}
                ELSE {Lower(GuiCatalog[i].key) : i \in 1..Len(GuiCatalog)}

\* C2 as claimed, with a file loaded: a typed question goes to a local analyzer if
\* and only if, trimmed and lower-cased, it is the canonical text or the short key of
\* a catalog entry, and every other question goes to the remote fallback.
C2_MatchesTextOrShortKey ==
    (ret.op = "custom_question" /\ Len(dataframes) > 0) =>
        LET matched == Lower(Strip(ret.arg)) \in CanonicalTexts \cup ShortKeys(app)
        IN  /\ ret.route = "local" <=> matched
            /\ ~matched => ret.route = "remote"

\* C2 amended: with a file loaded, a typed question goes to a local analyzer if and
\* only if, trimmed and lower-cased, it is the canonical text of a catalog entry or,
\* in the gui, its short label; every other question then goes to the remote
\* fallback; with nothing loaded no question is routed at all.
C2_Routing ==
    ret.op = "custom_question" =>
        LET text == Lower(Strip(ret.arg))
            matched == text \in CanonicalTexts \/ (app = "gui" /\ text \in ShortKeys("gui"))
        IN  /\ ret.route = "local" <=> (Len(dataframes) > 0 /\ matched)
            /\ ret.route = "remote" <=> (Len(dataframes) > 0 /\ ~matched)
            /\ ret.route = "none" <=> Len(dataframes) = 0

\* C2 witness: the count question typed with blanks around it went to count_invoices,
\* in the cli
C2_Witness ==
    /\ app = "cli"
    /\ ret.op = "custom_question"
    /\ ret.arg = <<32>> \o Q_TotalNFs \o <<32, 10>>
    /\ ret.route = "local"
    /\ ret.call.analysis = "count_invoices"

(***************************************************************************)
(* The registry.                                                           *)
(***************************************************************************)
Removed == ret.op = "delete_file" /\ ret.value.kind = "Removed"
Loaded == ret.op = "load_file" /\ ret.value.kind = "Loaded"

\* C3: when the active file is removed, the new active file is one of the files that
\* remain, and it is None only if none remains.
C3_ActiveReplacedOnRemove ==
    (Removed /\ ret.before.current_file = ret.arg) =>
        IF Len(dataframes) = 0 THEN current_file = None
        ELSE current_file \in KeySet(dataframes)

\* C4: after a successful load the loaded name is the active file if the registry
\* was empty before, and the active file is what it was if the registry was not.
C4_ActiveAfterLoad ==
    Loaded =>
        IF Len(ret.before.dataframes) = 0 THEN current_file = ret.arg.name
        ELSE current_file = ret.before.current_file

\* C5 as claimed: with an empty registry every analyzer returns an error result.
C5_EveryAnalyzerFailsWhenEmpty ==
    (ret.op = "analyzer" /\ Len(dataframes) = 0) => ret.value.kind = "Erro"

\* C5 amended: with an empty registry top_suppliers, mean_value and
\* temporal_distribution return an error result that carries the no-data exception
\* (cli: "Nenhum dado carregado", gui: pandas' "No objects to concatenate") and
\* compute nothing, while count_invoices returns a total of 0.
C5_EmptyRegistry ==
    (ret.op = "analyzer" /\ Len(dataframes) = 0) =>
        IF ret.call.analysis = "count_invoices" THEN ret.value = TotalResult(0)
        ELSE /\ ret.value.kind = "Erro"
             /\ ret.value.msg = IF app = "cli" THEN "Nenhum dado carregado"
                                ELSE "No objects to concatenate"

\* C5 witness: the mean asked of an empty registry
C5_Witness ==
    /\ ret.op = "analyzer"
    /\ Len(dataframes) = 0
    /\ ret.call.analysis = "mean_value"
    /\ ret.value.kind = "Erro"

\* the rows of a list of frames, counted frame by frame
RECURSIVE RowCount(_)
RowCount(dfs) == IF Len(dfs) = 0 THEN 0 ELSE Len(Head(dfs).rows) + RowCount(Tail(dfs))

\* C6: count_invoices reports the sum of the row counts of the files in the registry,
\* whatever was loaded and removed before, a row held by two files counted twice.
C6_CountIsSumOfRows ==
    (ret.op = "analyzer" /\ ret.call.analysis = "count_invoices") =>
        /\ ret.value.kind = "Total"
        /\ ret.value.total = RowCount(Values(dataframes))

\* C6 witness: two files that share a row, the row counted for each of them
C6_Witness ==
    /\ ret.op = "analyzer"
    /\ ret.call.analysis = "count_invoices"
    /\ Len(dataframes) = 2
    /\ dataframes[1].df.rows # <<>>
    /\ dataframes[2].df.rows # <<>>
    /\ dataframes[1].df.rows[1] = dataframes[2].df.rows[1]
    /\ ret.value.total = Len(dataframes[1].df.rows) + Len(dataframes[2].df.rows)

\* C7: loading a name again with the content it already holds leaves the names of
\* the registry and the invoice count as they were.
C7_ReloadReplaces ==
    (/\ Loaded
     /\ ret.arg.name \in KeySet(ret.before.dataframes)
     /\ GetItem(ret.before.dataframes, ret.arg.name) = ret.arg.df) =>
        /\ Keys(dataframes) = Keys(ret.before.dataframes)
        /\ CountInvoices(dataframes) = CountInvoices(ret.before.dataframes)
        /\ RowCount(Values(dataframes)) = RowCount(Values(ret.before.dataframes))

\* C7 witness: a file with rows loaded a second time, beside another file
C7_Witness ==
    /\ Loaded
    /\ ret.arg.name \in KeySet(ret.before.dataframes)
    /\ GetItem(ret.before.dataframes, ret.arg.name) = ret.arg.df
    /\ Len(ret.arg.df.rows) > 0
    /\ Len(dataframes) = 2

(***************************************************************************)
(* The analyzers.                                                          *)
(***************************************************************************)
TopCalled == ret.op = "analyzer" /\ ret.call.analysis = "top_suppliers"
UnionView == Concat(Values(dataframes))
Min(a, b) == IF a <= b THEN a ELSE b

\* the canonical columns as the specification resolves them: by any accepted alias
SupplierColumnOf(df) ==
    IF "fornecedor" \in df.columns THEN "fornecedor" ELSE "RAZÃO SOCIAL EMITENTE"
ValueColumnOf(df) == IF "valor" \in df.columns THEN "valor" ELSE "VALOR NOTA FISCAL"
Resolvable(df) ==
    /\ SupplierColumns \cap df.columns # {}
    /\ ValueColumns \cap df.columns # {}

\* the suppliers named in a frame, and the amount each one adds up to
SuppliersIn(df) ==
    {c.v : c \in {df.rows[i][SupplierColumnOf(df)] : i \in 1..Len(df.rows)} \ {NaN}}
RECURSIVE TotalOf(_, _, _)
TotalOf(df, s, i) ==
    IF i = 0 THEN 0
    ELSE TotalOf(df, s, i - 1)
         + (IF df.rows[i][SupplierColumnOf(df)] = Str(s) /\ df.rows[i][ValueColumnOf(df)].t = "num"
            THEN df.rows[i][ValueColumnOf(df)].v ELSE 0)
RECURSIVE ColumnTotal(_, _)
ColumnTotal(df, i) ==
    IF i = 0 THEN 0
    ELSE ColumnTotal(df, i - 1)
         + (IF df.rows[i][ValueColumnOf(df)].t = "num" THEN df.rows[i][ValueColumnOf(df)].v ELSE 0)
RECURSIVE EntriesTotal(_)
EntriesTotal(es) == IF Len(es) = 0 THEN 0 ELSE Head(es).total + EntriesTotal(Tail(es))

\* what C8 asks of an answer es to top_suppliers(n) over the frame df
RightTopEntries(df, n, es) ==
    /\ Len(es) = Min(n, Cardinality(SuppliersIn(df)))
    /\ \A i \in 1..Len(es) :
          /\ es[i].fornecedor \in SuppliersIn(df)
          /\ es[i].total = TotalOf(df, es[i].fornecedor, Len(df.rows))
    /\ \A i, j \in 1..Len(es) : i < j =>
          /\ es[i].fornecedor # es[j].fornecedor
          /\ es[i].total >= es[j].total

\* C8: for a non-empty registry whose union view has rows and resolvable supplier
\* and value columns, top_suppliers(n) returns min(n, number of distinct suppliers) entries,
\* each with the sum of its supplier's values over all files, in non-increasing
\* order of the sums.
C8_TopSuppliersEntries ==
    (TopCalled /\ Len(dataframes) > 0 /\ Len(UnionView.rows) > 0 /\ Resolvable(UnionView)) =>
        /\ ret.value.kind = "Top"
        /\ RightTopEntries(UnionView, ret.call.top_n, ret.value.entries)

\* C8 where the code does as claimed: the columns are named fornecedor and valor
\* and the value column holds numbers (and NaN) only
C8_OnNumericFornecedorValor ==
    (/\ TopCalled
     /\ Len(UnionView.rows) > 0
     /\ {"fornecedor", "valor"} \subseteq UnionView.columns
     /\ ~IsObjectDtype(UnionView, "valor")) =>
        /\ ret.value.kind = "Top"
        /\ RightTopEntries(UnionView, ret.call.top_n, ret.value.entries)

NoNegativeAmount(df) ==
    \A i \in 1..Len(df.rows) :
        df.rows[i][ValueColumnOf(df)].t = "num" => df.rows[i][ValueColumnOf(df)].v >= 0

\* C9 as claimed: the totals of the entries top_suppliers returns add up to no more
\* than the sum of the whole value column, whatever amounts it holds.
C9_EntriesWithinColumnSum ==
    (TopCalled /\ ret.value.kind = "Top") =>
        EntriesTotal(ret.value.entries) <= ColumnTotal(UnionView, Len(UnionView.rows))

\* C9 amended: the totals of the entries top_suppliers returns add up to no more
\* than the sum of the whole value column when the column holds no negative amount.
C9_EntriesWithinColumnSumOfNonNegative ==
    (TopCalled /\ ret.value.kind = "Top" /\ NoNegativeAmount(UnionView)) =>
        EntriesTotal(ret.value.entries) <= ColumnTotal(UnionView, Len(UnionView.rows))

\* C9 witness: an answer over two files without negative amounts that leaves a
\* part of the column sum out
C9_Witness ==
    /\ TopCalled
    /\ ret.value.kind = "Top"
    /\ Len(dataframes) = 2
    /\ NoNegativeAmount(UnionView)
    /\ Len(ret.value.entries) > 0
    /\ 0 < EntriesTotal(ret.value.entries)
    /\ EntriesTotal(ret.value.entries) < ColumnTotal(UnionView, Len(UnionView.rows))

\* the row at which a supplier first appears in the union view
FirstRowOf(df, s) ==
    CHOOSE i \in 1..Len(df.rows) :
        /\ df.rows[i]["fornecedor"] = Str(s)
        /\ \A j \in 1..(i - 1) : df.rows[j]["fornecedor"] # Str(s)
PositionIn(es, s) == CHOOSE i \in 1..Len(es) : es[i].fornecedor = s
Answered(es) == {es[i].fornecedor : i \in 1..Len(es)}
Tied(df, a, b) ==
    /\ a # b
    /\ TotalOf(df, a, Len(df.rows)) = TotalOf(df, b, Len(df.rows))

\* the answer es puts a before b wherever it holds b
Precedes(es, a, b) ==
    b \in Answered(es) => (a \in Answered(es) /\ PositionIn(es, a) < PositionIn(es, b))

\* C10 as claimed, at the cut-off: of two suppliers with equal sums the one whose
\* first row comes earlier in the union view is selected and ordered first.
C10_TiesByFirstRow ==
    (/\ TopCalled
     /\ ret.value.kind = "Top"
     /\ ret.call.top_n < Cardinality(SuppliersIn(UnionView))) =>
        \A a, b \in SuppliersIn(UnionView) :
            (Tied(UnionView, a, b) /\ FirstRowOf(UnionView, a) < FirstRowOf(UnionView, b))
                => Precedes(ret.value.entries, a, b)

\* C10 amended: when n is smaller than the number of suppliers, of two suppliers
\* with equal sums the one whose name sorts first is selected and ordered first,
\* wherever their rows stand in the union view.
C10_TiesByName ==
    (/\ TopCalled
     /\ ret.value.kind = "Top"
     /\ ret.call.top_n < Cardinality(SuppliersIn(UnionView))) =>
        \A a, b \in SuppliersIn(UnionView) :
            (Tied(UnionView, a, b) /\ Rank(a) < Rank(b))
                => Precedes(ret.value.entries, a, b)

\* C10 witness: BETA's row comes first, ACME ties with it, and top_suppliers(1)
\* answers ACME
C10_Witness ==
    /\ TopCalled
    /\ ret.value.kind = "Top"
    /\ ret.call.top_n = 1
    /\ Tied(UnionView, "ACME", "BETA")
    /\ SuppliersIn(UnionView) = {"ACME", "BETA"}
    /\ FirstRowOf(UnionView, "BETA") < FirstRowOf(UnionView, "ACME")
    /\ Answered(ret.value.entries) = {"ACME"}

(***************************************************************************)
(* Columns that are missing, named otherwise, or hold what is no number.   *)
(***************************************************************************)
AnalyzerCalled == ret.op = "analyzer"

\* the columns an analyzer looks up in the union view
RequiredColumns(call) ==
    CASE call.analysis = "top_suppliers" -> {"fornecedor", "valor"}
      [] call.analysis = "mean_value" -> {"valor"}
      [] call.analysis = "temporal_distribution" -> {"data"}
      [] OTHER -> {}
MissingColumns(call, df) == RequiredColumns(call) \ df.columns

\* the columns a missing-column message names
NamedColumns(v) ==
    CASE v.columns = "fornecedor ou valor" -> {"fornecedor", "valor"}
      [] v.columns = "valor" -> {"valor"}
      [] v.columns = "data" -> {"data"}

\* C11: an analyzer that does not find a column it needs answers with a
\* missing-column result that names the column that is missing, for top_suppliers
\* the supplier or the value column, whichever is absent.
C11_MissingColumnIdentified ==
    (AnalyzerCalled /\ Len(dataframes) > 0 /\ MissingColumns(ret.call, UnionView) # {}) =>
        /\ ret.value.kind = "ColumnNotFound"
        /\ NamedColumns(ret.value) = MissingColumns(ret.call, UnionView)

\* C11 as far as the code goes: the answer is a missing-column result, no number and
\* no exception, and the missing column is among those the message names
C11_MissingColumnReported ==
    (AnalyzerCalled /\ Len(dataframes) > 0 /\ MissingColumns(ret.call, UnionView) # {}) =>
        /\ ret.value.kind = "ColumnNotFound"
        /\ MissingColumns(ret.call, UnionView) \subseteq NamedColumns(ret.value)

\* a file whose columns carry the alias names, with the names the analyzers look up
AliasHeader == {"RAZÃO SOCIAL EMITENTE", "VALOR NOTA FISCAL"}
Renamed(df) ==
    [columns |-> {"fornecedor", "valor"},
     rows |-> [i \in 1..Len(df.rows) |->
                  [c \in {"fornecedor", "valor"} |->
                      IF c = "fornecedor" THEN df.rows[i]["RAZÃO SOCIAL EMITENTE"]
                      ELSE df.rows[i]["VALOR NOTA FISCAL"]]]]
RenamedRegistry(d) == [i \in 1..Len(d) |-> [name |-> d[i].name, df |-> Renamed(d[i].df)]]

\* C12: a registry of files with rows that name the columns RAZÃO SOCIAL EMITENTE and
\* VALOR NOTA FISCAL gets from top_suppliers and mean_value what the same rows get under the
\* names fornecedor and valor.
C12_AliasesResolved ==
    (/\ AnalyzerCalled
     /\ ret.call.analysis \in {"top_suppliers", "mean_value"}
     /\ Len(dataframes) > 0
     /\ Len(UnionView.rows) > 0
     /\ \A i \in 1..Len(dataframes) : dataframes[i].df.columns = AliasHeader) =>
        ret.value \in RunCall(app, RenamedRegistry(dataframes), ret.call)

RECURSIVE NumericCount(_, _)
NumericCount(df, i) ==
    IF i = 0 THEN 0
    ELSE NumericCount(df, i - 1) + (IF df.rows[i]["valor"].t = "num" THEN 1 ELSE 0)
MeanCalled == AnalyzerCalled /\ ret.call.analysis = "mean_value"

\* C13: mean_value answers the mean of the numeric entries of the value column: rows
\* whose value is null or no number are left out of the sum and of the count, and
\* do not make the answer an error.
C13_MeanOfNumericEntries ==
    (/\ MeanCalled
     /\ Len(dataframes) > 0
     /\ "valor" \in UnionView.columns
     /\ NumericCount(UnionView, Len(UnionView.rows)) > 0) =>
        /\ ret.value.kind = "Mean"
        /\ ret.value.sum = ColumnTotal(UnionView, Len(UnionView.rows))
        /\ ret.value.count = NumericCount(UnionView, Len(UnionView.rows))

\* C13 where the code does as claimed: null values are left out when the column
\* holds no text
C13_MeanSkipsNull ==
    (/\ MeanCalled
     /\ Len(dataframes) > 0
     /\ "valor" \in UnionView.columns
     /\ \A i \in 1..Len(UnionView.rows) : UnionView.rows[i]["valor"].t # "str") =>
        /\ ret.value.kind = "Mean"
        /\ ret.value.sum = ColumnTotal(UnionView, Len(UnionView.rows))
        /\ ret.value.count = NumericCount(UnionView, Len(UnionView.rows))

(***************************************************************************)
(* The dates.                                                              *)
(***************************************************************************)
TemporalCalled == AnalyzerCalled /\ ret.call.analysis = "temporal_distribution"
HasDates(df) == "data" \in df.columns
ValidDateRows(df) == {i \in 1..Len(df.rows) : Parseable(df.rows[i]["data"])}
UnparseableRows(df) ==
    {i \in 1..Len(df.rows) : df.rows[i]["data"].t = "str" /\ ~Parseable(df.rows[i]["data"])}
YearMonth(cell) == <<ParseDate(cell.v).year, ParseDate(cell.v).month>>
BucketKey(b) == <<b.year, b.month>>
RECURSIVE BucketTotal(_)
BucketTotal(bs) == IF Len(bs) = 0 THEN 0 ELSE Head(bs).count + BucketTotal(Tail(bs))

\* C14: with date values that cannot be parsed, temporal_distribution does not
\* fail: it answers the buckets of the rows that are left.
C14_UnparseableDatesExcluded ==
    (/\ TemporalCalled
     /\ Len(dataframes) > 0
     /\ HasDates(UnionView)
     /\ UnparseableRows(UnionView) # {}) =>
        /\ ret.value.kind = "Temporal"
        /\ BucketTotal(ret.value.buckets) = Cardinality(ValidDateRows(UnionView))

\* what C15 asks of the buckets bs answered for the frame df
RightBuckets(df, bs) ==
    /\ \A i \in ValidDateRows(df) :
          Cardinality({k \in 1..Len(bs) : BucketKey(bs[k]) = YearMonth(df.rows[i]["data"])}) = 1
    /\ \A k \in 1..Len(bs) :
          bs[k].count = Cardinality({i \in ValidDateRows(df) :
                                        YearMonth(df.rows[i]["data"]) = BucketKey(bs[k])})
    /\ BucketTotal(bs) = Cardinality(ValidDateRows(df))
    /\ \A j, k \in 1..Len(bs) :
          j < k => bs[j].year * 12 + bs[j].month < bs[k].year * 12 + bs[k].month

\* C15: temporal_distribution counts every row with a valid date in the one bucket
\* of its year and month, the counts add up to the number of rows with a valid
\* date, and the buckets come in strictly ascending order.
C15_MonthlyBuckets ==
    (/\ TemporalCalled
     /\ Len(dataframes) > 0
     /\ HasDates(UnionView)
     /\ ValidDateRows(UnionView) # {}) =>
        /\ ret.value.kind = "Temporal"
        /\ RightBuckets(UnionView, ret.value.buckets)

\* C15 where the code does as claimed: no date of the column fails to parse
C15_OnParseableDates ==
    (/\ TemporalCalled
     /\ Len(dataframes) > 0
     /\ HasDates(UnionView)
     /\ ValidDateRows(UnionView) # {}
     /\ UnparseableRows(UnionView) = {}) =>
        /\ ret.value.kind = "Temporal"
        /\ RightBuckets(UnionView, ret.value.buckets)

(***************************************************************************)
(* What the analyzers and the questions leave behind.                      *)
(***************************************************************************)
\* C16: no analyzer and no ask_question call changes the registry: the names, the
\* rows and columns of every file and the active file are after the call what they
\* were before it, whether it answers or reports an error.
C16_RegistryUntouched ==
    ret.op \in {"analyzer", "custom_question", "predefined_menu"} =>
        /\ dataframes = ret.before.dataframes
        /\ current_file = ret.before.current_file

\* C16 witness: the temporal question answered over a single file, the dates parsed
\* and assigned to the combined frame
C16_Witness ==
    /\ ret.op = "custom_question"
    /\ ret.call.analysis = "temporal_distribution"
    /\ ret.value.kind = "Temporal"
    /\ Len(ret.value.buckets) = 2
    /\ Len(dataframes) = 1
    /\ dataframes = ret.before.dataframes

(***************************************************************************)
(* The remote questions.                                                   *)
(***************************************************************************)
\* C17: a failure of the chat endpoint, or of building the sample sent to it, ends
\* as an error result handed to the caller (cli: the string returned, gui: the
\* error message in the chat) and never as an exception let through.
C17_RemoteFailureCaught ==
    ret.route = "remote" =>
        /\ ret.value.kind \in {"Remote", "Erro", "ThreadStarted"}
        /\ (ret.op = "worker" /\ ret.arg.raised) =>
              (ret.value.kind = "Erro" /\ ret.value.msg = ret.arg.msg)

\* C17 witness: a thread whose sample could not be built, the last file having been
\* removed after the question, ends on the error message
C17_Witness ==
    /\ ret.op = "worker"
    /\ ret.arg.raised
    /\ ret.arg.msg = "No objects to concatenate"
    /\ ret.value.kind = "Erro"
    /\ Len(ret.before.dataframes) > 0

\* C18: in the gui the files sampled for a remote question are the registry as it
\* was when the question was asked: a load_file or delete_file made while the
\* thread runs neither changes what the thread samples nor makes it fail.
C18_SampleIsSubmittedRegistry ==
    \A i \in 1..Len(threads) :
        threads[i].pc = "request" =>
            /\ ~threads[i].sample.raised
            /\ threads[i].sample.value = threads[i].submitted

\* C18, the part the code keeps: the thread never writes to the registry
C18_WorkerNeverWrites ==
    [][(WorkerBegin \/ WorkerSample \/ WorkerFinish) =>
          (dataframes' = dataframes /\ current_file' = current_file)]_vars

(***************************************************************************)
(* The active file, and the matched questions.                             *)
(***************************************************************************)
\* C19: after any loads and removals, failed ones included, the active file is None
\* or the name of a file in the registry, and it is None only when the registry is
\* empty.
C19_ActiveIsRegistered ==
    /\ current_file = None \/ current_file \in KeySet(dataframes)
    /\ current_file = None => Len(dataframes) = 0

\* C19, the part the code keeps: the active file is None or names a file of the
\* registry
C19_ActiveNamesAFile == current_file = None \/ current_file \in KeySet(dataframes)

Consulting == {i \in 1..Len(threads) : threads[i].pc \in {"sample", "request"}}

\* C21: in the gui the status bar shows 'Pronto' only while no thread of
\* process_question_with_api is at work: a file loaded meanwhile, or another
\* thread finishing first, leaves 'Consultando especialista' in place.
C21_ProntoOnlyWhenIdle ==
    (app = "gui" /\ status_var = Pronto) => Consulting = {}

\* C21, the part the code keeps: with no thread left, the status bar shows 'Pronto'
C21_ProntoWhenIdle ==
    (app = "gui" /\ threads = <<>>) => status_var = Pronto

====
